---- MODULE Spec2Model ----
(***************************************************************************)
(* State-machine model of static/script.js: the client-side session        *)
(* controller of the tutor (setup -> lesson -> quiz -> result).            *)
(*                                                                         *)
(* One action per event-loop task: a click handler up to its first await,  *)
(* the continuation of a handler after its fetch settles, and the callback *)
(* of a setTimeout.  JavaScript runs each of these to completion, so each  *)
(* is one atomic step; tasks interleave in any order.                      *)
(***************************************************************************)
EXTENDS Integers, Sequences, FiniteSets, TLC

VARIABLES hidden, feedback, topic, quizData, currentQuestionIndex, score,
          userSelections, timers, inflight, optionsRendered, checked,
          resultText, lastAlert, showResultsCalls, selectionsBefore

vars == <<hidden, feedback, topic, quizData, currentQuestionIndex, score,
          userSelections, timers, inflight, optionsRendered, checked,
          resultText, lastAlert, showResultsCalls, selectionsBefore>>

\* ---------------------------------------------------------------- bounds
MaxQuizLen == 2
MaxTimers == 2
MaxInFlight == 2
MaxTotal == 5

\* ------------------------------------------------------------ data model
Options == {"a", "b"}
Topics == {"", "Fractions"}

\* a question of the quiz payload; the radio buttons carry its options
Question(ans) == [options |-> Options, answer |-> ans]

RECURSIVE SeqsUpTo(_, _)
SeqsUpTo(S, n) ==
    IF n = 0 THEN {<<>>}
    ELSE LET shorter == SeqsUpTo(S, n - 1)
         IN  shorter \cup {Append(s, x) : s \in {t \in shorter : Len(t) = n - 1}, x \in S}

\* the `questions` arrays a /generate_quiz response can carry (the empty one too)
QuizPayloads == SeqsUpTo({Question(a) : a \in Options}, MaxQuizLen)

\* let quizData = null  /  quizData = data.questions
Null == [loaded |-> FALSE, questions |-> <<>>]
Loaded(q) == [loaded |-> TRUE, questions |-> q]

\* let userSelections = {}  /  { subject, topic, level }
NoSelections == [subject |-> "", topic |-> "", level |-> ""]
Selections(t) == [subject |-> "Math", topic |-> t, level |-> "Beginner"]

NoOption == "none"
NoAlert == "none"
NoResult == [score |-> 0, total |-> 0, percentage |-> 0, tier |-> "none"]

\* (score / quizData.length * 100).toFixed(1), in tenths of a percent;
\* a zero length gives the strings "NaN" (0/0) and "Infinity" (s/0)
PctNaN == -1
PctInfinity == -2
Percentage(s, n) ==
    IF n = 0 THEN (IF s = 0 THEN PctNaN ELSE PctInfinity)
    ELSE (s * 2000 + n) \div (2 * n)

\* tiers compared with > instead of >=
TierStrict(p) ==
    IF p = PctInfinity THEN "excellent"
    ELSE IF p = PctNaN THEN "review"
    ELSE IF p > 800 THEN "excellent"
    ELSE IF p > 600 THEN "good"
    ELSE "review"

\* percentage >= 80 / percentage >= 60 on the string coerced to a number
Tier(p) ==
    IF p = PctInfinity THEN "excellent"
    ELSE IF p = PctNaN THEN "review"
    ELSE IF p >= 800 THEN "excellent"
    ELSE IF p >= 600 THEN "good"
    ELSE "review"

\* ------------------------------------------------------------------ init
\* the state after the initial resetUI() of the DOMContentLoaded handler
Init ==
    /\ hidden = [setupSection |-> FALSE, lessonSection |-> TRUE,
                 quizSection |-> TRUE, resultSection |-> TRUE,
                 startQuizBtn |-> TRUE, submitAnswerBtn |-> FALSE,
                 loadingSpinner |-> TRUE]
    /\ feedback = ""
    /\ topic = ""
    /\ quizData = Null
    /\ currentQuestionIndex = 0
    /\ score = 0
    /\ userSelections = NoSelections
    /\ timers = 0
    /\ inflight = [lesson |-> 0, quiz |-> 0]
    /\ optionsRendered = FALSE
    /\ checked = NoOption
    /\ resultText = NoResult
    /\ lastAlert = NoAlert
    /\ showResultsCalls = 0
    /\ selectionsBefore = NoSelections

\* ------------------------------------------------------- click-ability
\* A button takes a click while it and the section holding it are shown.
\* Which section holds which button is fixed by the page markup.
generateBtnClickable == ~hidden.setupSection
startQuizBtnClickable == ~hidden.lessonSection /\ ~hidden.startQuizBtn
submitAnswerBtnClickable == ~hidden.quizSection /\ ~hidden.submitAnswerBtn
restartBtnClickable == TRUE
optionsClickable == ~hidden.quizSection /\ optionsRendered

InFlight == inflight.lesson + inflight.quiz

\* --------------------------------------------------------------- helpers
\* a toggleLoading that never hides the spinner again
toggleLoadingStuck(h, isLoading) == [h EXCEPT !.loadingSpinner = FALSE]

\* toggleLoading(isLoading)
toggleLoading(h, isLoading) == [h EXCEPT !.loadingSpinner = ~isLoading]

\* the classList part of resetUI
resetSections(h) ==
    [h EXCEPT !.setupSection = FALSE, !.lessonSection = TRUE,
              !.quizSection = TRUE, !.resultSection = TRUE,
              !.startQuizBtn = TRUE]

\* a comparison that takes every answer for correct
isCorrectAny(userAnswer, question) == TRUE

\* userAnswer === question.answer
isCorrect(userAnswer, question) == userAnswer = question.answer

\* a delayed callback that forgets currentQuestionIndex++
advanceIndexStuck(i) == i

\* currentQuestionIndex++ of the delayed callback
advanceIndex(i) == i + 1

\* quizData[currentQuestionIndex] is a question (not undefined)
hasQuestion(qd, i) == qd.loaded /\ i < Len(qd.questions)

\* --------------------------------------------------------------- actions
\* selectionsBefore is a history variable: userSelections as it was before
\* the most recent click that issued a request.

\* the user types into the topic input
TypeTopic(t) ==
    /\ ~hidden.setupSection
    /\ t # topic
    /\ topic' = t
    /\ lastAlert' = NoAlert
    /\ UNCHANGED <<hidden, feedback, quizData, currentQuestionIndex, score,
                   userSelections, timers, inflight, optionsRendered, checked,
                   resultText, showResultsCalls,
                   selectionsBefore>>

\* the user picks a radio button of the rendered question
SelectOption(o) ==
    /\ optionsClickable
    /\ o # checked
    /\ checked' = o
    /\ lastAlert' = NoAlert
    /\ UNCHANGED <<hidden, feedback, topic, quizData, currentQuestionIndex,
                   score, userSelections, timers, inflight, optionsRendered,
                   resultText, showResultsCalls,
                   selectionsBefore>>

\* restartBtn click: resetUI
Restart ==
    /\ restartBtnClickable
    /\ hidden' = resetSections(hidden)
    /\ feedback' = ""
    /\ topic' = ""
    /\ quizData' = Null
    /\ currentQuestionIndex' = 0
    /\ score' = 0
    /\ lastAlert' = NoAlert
    /\ UNCHANGED <<userSelections, timers, inflight, optionsRendered, checked,
                   resultText, showResultsCalls,
                   selectionsBefore>>

\* generateBtn click with an empty topic: alert and return
GenerateRejected ==
    /\ generateBtnClickable
    /\ topic = ""
    /\ lastAlert' = "Please enter a topic."
    /\ UNCHANGED <<hidden, feedback, topic, quizData, currentQuestionIndex,
                   score, userSelections, timers, inflight, optionsRendered,
                   checked, resultText, showResultsCalls,
                   selectionsBefore>>

\* a generateBtn handler without the `if (!topic)` check
GenerateClickUnvalidated ==
    /\ generateBtnClickable
    /\ InFlight < MaxInFlight
    /\ userSelections' = Selections(topic)
    /\ selectionsBefore' = userSelections
    /\ hidden' = toggleLoading(hidden, TRUE)
    /\ inflight' = [inflight EXCEPT !.lesson = @ + 1]
    /\ lastAlert' = NoAlert
    /\ UNCHANGED <<feedback, topic, quizData, currentQuestionIndex, score,
                   timers, optionsRendered, checked, resultText,
                   showResultsCalls>>

\* generateBtn click up to the await: store the selections, issue the fetch
GenerateClick ==
    /\ generateBtnClickable
    /\ topic # ""
    /\ InFlight < MaxInFlight
    /\ userSelections' = Selections(topic)
    /\ hidden' = toggleLoading(hidden, TRUE)
    /\ inflight' = [inflight EXCEPT !.lesson = @ + 1]
    /\ lastAlert' = NoAlert
    /\ selectionsBefore' = userSelections
    /\ UNCHANGED <<feedback, topic, quizData, currentQuestionIndex, score,
                   timers, optionsRendered, checked, resultText,
                   showResultsCalls>>

\* /generate_lesson settles with an error (network, non-2xx, bad JSON):
\* fetchAPI alerts, hides the spinner and returns null
LessonFail ==
    /\ inflight.lesson > 0
    /\ inflight' = [inflight EXCEPT !.lesson = @ - 1]
    /\ hidden' = toggleLoading(hidden, FALSE)
    /\ lastAlert' = "An error occurred."
    /\ UNCHANGED <<feedback, topic, quizData, currentQuestionIndex, score,
                   userSelections, timers, optionsRendered, checked,
                   resultText, showResultsCalls,
                   selectionsBefore>>

\* /generate_lesson answers 2xx with JSON that has no (or an empty) lesson_html
LessonNoField ==
    /\ inflight.lesson > 0
    /\ inflight' = [inflight EXCEPT !.lesson = @ - 1]
    /\ hidden' = toggleLoading(hidden, FALSE)
    /\ lastAlert' = NoAlert
    /\ UNCHANGED <<feedback, topic, quizData, currentQuestionIndex, score,
                   userSelections, timers, optionsRendered, checked,
                   resultText, showResultsCalls,
                   selectionsBefore>>

\* /generate_lesson answers with lesson_html: show the lesson
LessonOk ==
    /\ inflight.lesson > 0
    /\ inflight' = [inflight EXCEPT !.lesson = @ - 1]
    /\ hidden' = [toggleLoading(hidden, FALSE) EXCEPT
                     !.setupSection = TRUE, !.lessonSection = FALSE,
                     !.startQuizBtn = FALSE]
    /\ lastAlert' = NoAlert
    /\ UNCHANGED <<feedback, topic, quizData, currentQuestionIndex, score,
                   userSelections, timers, optionsRendered, checked,
                   resultText, showResultsCalls,
                   selectionsBefore>>

\* startQuizBtn click up to the await
StartQuizClick ==
    /\ startQuizBtnClickable
    /\ InFlight < MaxInFlight
    /\ hidden' = toggleLoading(hidden, TRUE)
    /\ inflight' = [inflight EXCEPT !.quiz = @ + 1]
    /\ lastAlert' = NoAlert
    /\ selectionsBefore' = userSelections
    /\ UNCHANGED <<feedback, topic, quizData, currentQuestionIndex, score,
                   userSelections, timers, optionsRendered, checked,
                   resultText, showResultsCalls>>

QuizFail ==
    /\ inflight.quiz > 0
    /\ inflight' = [inflight EXCEPT !.quiz = @ - 1]
    /\ hidden' = toggleLoading(hidden, FALSE)
    /\ lastAlert' = "An error occurred."
    /\ UNCHANGED <<feedback, topic, quizData, currentQuestionIndex, score,
                   userSelections, timers, optionsRendered, checked,
                   resultText, showResultsCalls,
                   selectionsBefore>>

QuizNoField ==
    /\ inflight.quiz > 0
    /\ inflight' = [inflight EXCEPT !.quiz = @ - 1]
    /\ hidden' = toggleLoading(hidden, FALSE)
    /\ lastAlert' = NoAlert
    /\ UNCHANGED <<feedback, topic, quizData, currentQuestionIndex, score,
                   userSelections, timers, optionsRendered, checked,
                   resultText, showResultsCalls,
                   selectionsBefore>>

\* /generate_quiz answers with a questions array q (any array is truthy):
\* store it, show the quiz section, displayQuestion().  displayQuestion
\* clears the feedback and shows the submit button, then throws on
\* question.options when quizData[currentQuestionIndex] is undefined,
\* leaving the previously rendered options in place.
QuizOk(q) ==
    /\ inflight.quiz > 0
    /\ inflight' = [inflight EXCEPT !.quiz = @ - 1]
    /\ quizData' = Loaded(q)
    /\ hidden' = [toggleLoading(hidden, FALSE) EXCEPT
                     !.lessonSection = TRUE, !.quizSection = FALSE,
                     !.submitAnswerBtn = FALSE]
    /\ feedback' = ""
    /\ IF hasQuestion(Loaded(q), currentQuestionIndex)
       THEN optionsRendered' = TRUE /\ checked' = NoOption
       ELSE UNCHANGED <<optionsRendered, checked>>
    /\ showResultsCalls' = 0
    /\ lastAlert' = NoAlert
    /\ UNCHANGED <<topic, currentQuestionIndex, score, userSelections, timers,
                   resultText, selectionsBefore>>

\* submitAnswerBtn click with no radio button checked: alert and return
SubmitRejected ==
    /\ submitAnswerBtnClickable
    /\ checked = NoOption
    /\ lastAlert' = "Please select an answer."
    /\ UNCHANGED <<hidden, feedback, topic, quizData, currentQuestionIndex,
                   score, userSelections, timers, inflight, optionsRendered,
                   checked, resultText, showResultsCalls,
                   selectionsBefore>>

\* submitAnswerBtn click with an option checked but no current question:
\* question.answer throws a TypeError before anything is written
SubmitThrows ==
    /\ submitAnswerBtnClickable
    /\ checked # NoOption
    /\ ~hasQuestion(quizData, currentQuestionIndex)
    /\ lastAlert' = NoAlert
    /\ UNCHANGED <<hidden, feedback, topic, quizData, currentQuestionIndex,
                   score, userSelections, timers, inflight, optionsRendered,
                   checked, resultText, showResultsCalls,
                   selectionsBefore>>

\* a submitAnswerBtn handler without the `if (!selectedOption)` check
SubmitAnswerUnchecked ==
    /\ submitAnswerBtnClickable
    /\ hasQuestion(quizData, currentQuestionIndex)
    /\ timers < MaxTimers
    /\ LET question == quizData.questions[currentQuestionIndex + 1]
       IN  IF isCorrect(checked, question)
           THEN score' = score + 1 /\ feedback' = "correct"
           ELSE score' = score /\ feedback' = "incorrect"
    /\ hidden' = [hidden EXCEPT !.submitAnswerBtn = TRUE]
    /\ timers' = timers + 1
    /\ lastAlert' = NoAlert
    /\ UNCHANGED <<topic, quizData, currentQuestionIndex, userSelections,
                   inflight, optionsRendered, checked, resultText,
                   showResultsCalls, selectionsBefore>>

\* submitAnswerBtn click: score, show the feedback, hide the button, setTimeout
SubmitAnswer ==
    /\ submitAnswerBtnClickable
    /\ checked # NoOption
    /\ hasQuestion(quizData, currentQuestionIndex)
    /\ timers < MaxTimers
    /\ LET question == quizData.questions[currentQuestionIndex + 1]
       IN  IF isCorrect(checked, question)
           THEN score' = score + 1 /\ feedback' = "correct"
           ELSE score' = score /\ feedback' = "incorrect"
    /\ hidden' = [hidden EXCEPT !.submitAnswerBtn = TRUE]
    /\ timers' = timers + 1
    /\ lastAlert' = NoAlert
    /\ UNCHANGED <<topic, quizData, currentQuestionIndex, userSelections,
                   inflight, optionsRendered, checked, resultText,
                   showResultsCalls,
                   selectionsBefore>>

\* the setTimeout callback with quizData === null: the index is incremented,
\* then quizData.length throws a TypeError
AdvanceThrows ==
    /\ timers > 0
    /\ ~quizData.loaded
    /\ timers' = timers - 1
    /\ currentQuestionIndex' = advanceIndex(currentQuestionIndex)
    /\ lastAlert' = NoAlert
    /\ UNCHANGED <<hidden, feedback, topic, quizData, score, userSelections,
                   inflight, optionsRendered, checked, resultText,
                   showResultsCalls,
                   selectionsBefore>>

\* the setTimeout callback, next question: displayQuestion()
AdvanceNext ==
    /\ timers > 0
    /\ quizData.loaded
    /\ advanceIndex(currentQuestionIndex) < Len(quizData.questions)
    /\ timers' = timers - 1
    /\ currentQuestionIndex' = advanceIndex(currentQuestionIndex)
    /\ feedback' = ""
    /\ hidden' = [hidden EXCEPT !.submitAnswerBtn = FALSE]
    /\ optionsRendered' = TRUE
    /\ checked' = NoOption
    /\ lastAlert' = NoAlert
    /\ UNCHANGED <<topic, quizData, score, userSelections, inflight,
                   resultText, showResultsCalls,
                   selectionsBefore>>

\* the setTimeout callback, no question left: showResults()
AdvanceResults ==
    /\ timers > 0
    /\ quizData.loaded
    /\ ~(advanceIndex(currentQuestionIndex) < Len(quizData.questions))
    /\ timers' = timers - 1
    /\ currentQuestionIndex' = advanceIndex(currentQuestionIndex)
    /\ hidden' = [hidden EXCEPT !.quizSection = TRUE, !.resultSection = FALSE]
    /\ LET n == Len(quizData.questions)
           p == Percentage(score, n)
       IN  resultText' = [score |-> score, total |-> n, percentage |-> p,
                          tier |-> Tier(p)]
    /\ showResultsCalls' = showResultsCalls + 1
    /\ lastAlert' = NoAlert
    /\ UNCHANGED <<feedback, topic, quizData, score, userSelections, inflight,
                   optionsRendered, checked,
                   selectionsBefore>>

Next ==
    \/ \E t \in Topics : TypeTopic(t)
    \/ \E o \in Options : SelectOption(o)
    \/ Restart
    \/ GenerateRejected
    \/ GenerateClick
    \/ LessonFail
    \/ LessonNoField
    \/ LessonOk
    \/ StartQuizClick
    \/ QuizFail
    \/ QuizNoField
    \/ \E q \in QuizPayloads : QuizOk(q)
    \/ SubmitRejected
    \/ SubmitThrows
    \/ SubmitAnswer
    \/ AdvanceThrows
    \/ AdvanceNext
    \/ AdvanceResults

Spec == Init /\ [][Next]_vars

TypeOK ==
    /\ hidden \in [{"setupSection", "lessonSection", "quizSection",
                    "resultSection", "startQuizBtn", "submitAnswerBtn",
                    "loadingSpinner"} -> BOOLEAN]
    /\ feedback \in {"", "correct", "incorrect"}
    /\ topic \in Topics
    /\ quizData \in {Null} \cup {Loaded(q) : q \in QuizPayloads}
    /\ currentQuestionIndex \in Nat
    /\ score \in Nat
    /\ userSelections \in {NoSelections} \cup {Selections(t) : t \in Topics \ {""}}
    /\ timers \in 0..MaxTimers
    /\ inflight \in [{"lesson", "quiz"} -> 0..MaxInFlight]
    /\ optionsRendered \in BOOLEAN
    /\ checked \in Options \cup {NoOption}
    /\ lastAlert \in {NoAlert, "Please enter a topic.", "An error occurred.",
                      "Please select an answer."}
    /\ showResultsCalls \in Nat
    /\ selectionsBefore \in {NoSelections} \cup {Selections(t) : t \in Topics \ {""}}

\* ---------------------------------------------------------------- screens
Shown == {x \in {"setupSection", "lessonSection", "quizSection",
                 "resultSection"} : ~hidden[x]}
OnlySetupShown == Shown = {"setupSection"}

\* the session as restart() is meant to leave it, timers and requests aside
PostRestartSession ==
    /\ OnlySetupShown
    /\ ~quizData.loaded
    /\ currentQuestionIndex = 0
    /\ score = 0

\* the initial SessionState of the specification
InitialSession ==
    /\ PostRestartSession
    /\ hidden.loadingSpinner
    /\ userSelections = NoSelections

\* ----------------------------------------------------------------- claims

\* C1: a delayed advance that fires after restart() changes nothing: the
\* session is still the initial one (Setup, quiz=null, index 0, score 0).
C1_StaleAdvanceChangesNothing ==
    [][(timers' = timers - 1 /\ PostRestartSession)
          => (PostRestartSession /\ hidden.resultSection)']_vars

\* C2: restart() from any reachable state yields exactly the initial state
\* (Setup, isLoading=false, quiz=null, index 0, score 0, selections unset).
C2_RestartYieldsInitialState ==
    [][Restart => InitialSession']_vars

\* C3: with a quiz of n >= 1 questions loaded, 0 <= score <= n.
C3_ScoreWithinQuizLength ==
    (quizData.loaded /\ Len(quizData.questions) >= 1)
        => (0 <= score /\ score <= Len(quizData.questions))

\* C4: while a quiz is loaded, currentQuestionIndex never exceeds its length.
C4_IndexWithinQuizLength ==
    quizData.loaded => currentQuestionIndex <= Len(quizData.questions)

\* C5 (as stated): score <= currentQuestionIndex in every reachable state.
C5_ScoreAtMostIndex == score <= currentQuestionIndex

\* C5 (amended): score never exceeds currentQuestionIndex by more than the
\* number of delayed advances still pending; between an answer being scored
\* and its advance firing, score may be currentQuestionIndex + 1.
C5_ScoreAtMostIndexPlusPending == score <= currentQuestionIndex + timers

\* a correct answer has been scored and its delayed advance has not fired
C5_Witness ==
    /\ feedback = "correct"
    /\ timers = 1
    /\ score = currentQuestionIndex + 1

\* C6: the Quiz screen is only ever shown with a quiz of at least one question.
C6_QuizScreenHasQuestions ==
    ~hidden.quizSection => (quizData.loaded /\ Len(quizData.questions) >= 1)

\* C7: at most one generation request is outstanding at any time.
C7_OneRequestOutstanding == InFlight <= 1

\* C8: a successful startQuiz with a non-empty question sequence leaves the
\* session on the Quiz screen with quiz = the received questions, index 0,
\* score 0, isLoading=false and question 0 rendered.
C8_StartQuizPostcondition ==
    [][\A q \in QuizPayloads \ {<<>>} :
          QuizOk(q) => /\ Shown' = {"quizSection"}
                       /\ quizData' = Loaded(q)
                       /\ currentQuestionIndex' = 0
                       /\ score' = 0
                       /\ hidden'.loadingSpinner
                       /\ optionsRendered' /\ checked' = NoOption]_vars

\* C9: exactly one of the screens Setup, Lesson, Quiz, Result is shown.
C9_ExactlyOneScreen == Cardinality(Shown) = 1

\* C10: for each loaded quiz the transition to the Result screen happens
\* once, when currentQuestionIndex reaches the quiz length, never twice.
C10_ResultShownOnce ==
    /\ showResultsCalls <= 1
    /\ (quizData.loaded /\ showResultsCalls = 1)
          => currentQuestionIndex >= Len(quizData.questions)

C12_EmptyTopicRejected ==
    [][/\ (topic = "" /\ generateBtnClickable)
            => /\ inflight'.lesson <= inflight.lesson
               /\ userSelections' = userSelections
       /\ (lastAlert' = "Please enter a topic.")
            => /\ topic = ""
               /\ ~hidden'.setupSection
               /\ UNCHANGED <<hidden, feedback, topic, quizData,
                              currentQuestionIndex, score, userSelections,
                              timers, inflight, optionsRendered, checked,
                              resultText>>]_vars

\* the validation message of an empty-topic submit is showing on Setup
C12_Witness ==
    /\ lastAlert = "Please enter a topic."
    /\ topic = ""
    /\ ~hidden.setupSection
    /\ InFlight = 0

\* C13: a 2xx response without the required field is reported to the user
\* like a transport failure and the screen does not change.
C13_MissingFieldIsReported ==
    [][(LessonNoField \/ QuizNoField)
          => (lastAlert' = "An error occurred." /\ Shown' = Shown)]_vars

\* ------------------------------------------------- showResults on its own
\* The quizzes of 1..MaxTotal questions, and the sessions in which the last
\* question of such a quiz has just been answered: the final delayed advance
\* is pending and score is any value the answers so far can have produced.
ResultQuizzes == SeqsUpTo({Question(a) : a \in Options}, MaxTotal) \ {<<>>}

InitResults ==
    /\ hidden = [setupSection |-> TRUE, lessonSection |-> TRUE,
                 quizSection |-> FALSE, resultSection |-> TRUE,
                 startQuizBtn |-> FALSE, submitAnswerBtn |-> TRUE,
                 loadingSpinner |-> TRUE]
    /\ topic = "Fractions"
    /\ userSelections = Selections("Fractions")
    /\ selectionsBefore = Selections("Fractions")
    /\ quizData \in {Loaded(q) : q \in ResultQuizzes}
    /\ currentQuestionIndex = Len(quizData.questions) - 1
    /\ checked \in Options
    /\ feedback = IF isCorrect(checked, quizData.questions[Len(quizData.questions)])
                  THEN "correct" ELSE "incorrect"
    /\ score \in IF feedback = "correct"
                 THEN 1..Len(quizData.questions)
                 ELSE 0..(Len(quizData.questions) - 1)
    /\ timers = 1
    /\ inflight = [lesson |-> 0, quiz |-> 0]
    /\ optionsRendered = TRUE
    /\ resultText = NoResult
    /\ lastAlert = NoAlert
    /\ showResultsCalls = 0

NextResults == AdvanceResults

SpecResults == InitResults /\ [][NextResults]_vars

Abs(x) == IF x < 0 THEN -x ELSE x

\* C14: for total n >= 1 and 0 <= score <= n the result reports
\* percentage = score/n*100 rounded to one decimal, and the tier is excellent
\* iff percentage >= 80, good iff 60 <= percentage < 80, needs review iff
\* percentage < 60; 4/5 is excellent, 3/5 good, 2/5 needs review.
C14_ResultPercentageAndTier ==
    resultText # NoResult =>
        LET s == resultText.score
            n == resultText.total
            pc == resultText.percentage
            t == resultText.tier
        IN  /\ s = score /\ n = Len(quizData.questions)
            /\ 2 * Abs(pc * n - 1000 * s) <= n
            /\ (t = "excellent") <=> (pc >= 800)
            /\ (t = "good") <=> (600 <= pc /\ pc < 800)
            /\ (t = "review") <=> (pc < 600)
            /\ (s = 4 /\ n = 5) => (pc = 800 /\ t = "excellent")
            /\ (s = 3 /\ n = 5) => (pc = 600 /\ t = "good")
            /\ (s = 2 /\ n = 5) => (pc = 400 /\ t = "review")

\* the result of 4 out of 5 is on the Result screen
C14_Witness ==
    /\ Shown = {"resultSection"}
    /\ resultText = [score |-> 4, total |-> 5, percentage |-> 800,
                     tier |-> "excellent"]

\* ------------------------------------------------------ the end-to-end run
\* One session from the initial state: the user enters a topic and submits
\* once, the lesson arrives, the user starts the quiz once, a quiz of
\* 1..MaxTotal questions arrives, and the user answers each question as it is
\* shown, always picking option "a"; no restart, no failure.  The quizzes
\* range over every pattern of correct answers, so picking "a" is right on
\* some questions and wrong on others.
EnterTopic == TypeTopic("Fractions")
SubmitSetupOnce == InFlight = 0 /\ GenerateClick
StartQuizOnce == InFlight = 0 /\ StartQuizClick
QuizArrives == \E q \in ResultQuizzes : QuizOk(q)
PickA == SelectOption("a")

NextEndToEnd ==
    \/ EnterTopic
    \/ SubmitSetupOnce
    \/ LessonOk
    \/ StartQuizOnce
    \/ QuizArrives
    \/ PickA
    \/ SubmitAnswer
    \/ AdvanceNext
    \/ AdvanceResults

\* Settled fetches and expired timers are run by the event loop; that the
\* user keeps acting is the premise of the scenario.
SpecEndToEnd ==
    /\ Init
    /\ [][NextEndToEnd]_vars
    /\ WF_vars(EnterTopic)
    /\ WF_vars(SubmitSetupOnce)
    /\ WF_vars(LessonOk)
    /\ WF_vars(StartQuizOnce)
    /\ WF_vars(QuizArrives)
    /\ WF_vars(PickA)
    /\ WF_vars(SubmitAnswer)
    /\ WF_vars(AdvanceNext)
    /\ WF_vars(AdvanceResults)

\* the questions of the loaded quiz that picking "a" answers correctly
CorrectlyAnswered ==
    Cardinality({i \in 1..Len(quizData.questions) :
                    quizData.questions[i].answer = "a"})

\* C15: the end-to-end run eventually reaches the Result screen, after n
\* delayed advances, with score = the number of correctly answered questions;
\* n correct answers give score n, 100.0 percent and the excellent tier.
C15_EndToEndReachesResult ==
    <>(/\ Shown = {"resultSection"}
       /\ quizData.loaded
       /\ currentQuestionIndex = Len(quizData.questions)
       /\ score = CorrectlyAnswered
       /\ resultText.score = score
       /\ resultText.total = Len(quizData.questions)
       /\ (score = Len(quizData.questions))
             => (resultText.percentage = 1000 /\ resultText.tier = "excellent"))

\* three questions, all answered correctly, and the result is showing
C15_Witness ==
    /\ Shown = {"resultSection"}
    /\ quizData.loaded /\ Len(quizData.questions) = 3
    /\ currentQuestionIndex = 3
    /\ score = 3
    /\ resultText = [score |-> 3, total |-> 3, percentage |-> 1000,
                     tier |-> "excellent"]

\* C16: at most one delayed advance callback is pending at any time.
C16_OnePendingAdvance == timers <= 1

\* C17: submitAnswer with no option selected shows the validation message
\* and changes nothing: no score, no index change, no feedback, the submit
\* button stays, no delayed advance is scheduled.
C17_NoOptionRejected ==
    [][/\ (checked = NoOption)
            => /\ timers' <= timers
               /\ score' <= score
               /\ feedback' \in {feedback, ""}
               /\ hidden'.submitAnswerBtn => hidden.submitAnswerBtn
       /\ (lastAlert' = "Please select an answer.")
            => /\ checked = NoOption
               /\ UNCHANGED <<hidden, feedback, topic, quizData,
                              currentQuestionIndex, score, userSelections,
                              timers, inflight, optionsRendered, checked,
                              resultText>>]_vars

\* the validation message of a submit without a selection is showing, the
\* question is still open for an answer
C17_Witness ==
    /\ lastAlert = "Please select an answer."
    /\ checked = NoOption
    /\ submitAnswerBtnClickable
    /\ hasQuestion(quizData, currentQuestionIndex)
    /\ timers = 0

\* C18: after an accepted submitAnswer the submit button stays withdrawn
\* until the delayed advance renders the next question: while an advance is
\* pending the hidden button is shown again only by an advance firing.
C18_ButtonWithdrawnUntilAdvance ==
    [][(timers > 0 /\ hidden.submitAnswerBtn /\ ~hidden'.submitAnswerBtn)
          => timers' < timers]_vars

\* C19: a response that arrives after restart() was issued during its
\* request leaves the post-restart session as it is: Setup shown, quiz null.
\* (A quiz request pending while only Setup is shown was always overtaken by
\* a restart: it is issued from the Lesson screen.)
C19_StaleResponseChangesNothing ==
    [][(OnlySetupShown /\ ~quizData.loaded /\ inflight'.quiz < inflight.quiz)
          => (OnlySetupShown /\ ~quizData.loaded)']_vars
====
